---- MODULE Spec2Model ----
(***************************************************************************)
(* Termibbl server core: game server (matchmaking), game room actor and    *)
(* the Skribbl round engine, modelled from src/src/server/{mod,skribbl,    *)
(* session}.rs.  Every actor handler is one atomic action; a mailbox is a  *)
(* FIFO sequence; actors interleave freely.  The frame codec of            *)
(* src/src/{message,network}.rs and levenshtein_distance are modelled as   *)
(* functions, each applied by a specification of its own.                  *)
(*                                                                         *)
(* Library behaviour that is not part of the sources is modelled by the    *)
(* effect the handler's statements describe: RefCell borrow flags are not  *)
(* tracked, and IteratorRandom::choose over the cyclic word list is a      *)
(* nondeterministic pick of one word of the list.                          *)
(***************************************************************************)
EXTENDS Integers, Sequences, FiniteSets, TLC

\* ------------------------------------------------------------------ bounds
MaxPlayers == 3
MaxTicks == 2
MaxMessages == 1
MaxDisconnects == 1
MaxCanvas == 1
MaxSends == 3
MaxEngineRounds == 2
MaxFrames == 2
MaxDecodes == 2
MaxWordLen == 3
MaxGuessTurns == 2

\* ------------------------------------------------------- program constants
ROUND_DURATION == 120

\* ------------------------------------------------------------ input domains
PlayerIds == 1..MaxPlayers
TimeStep == {60}
RoundDurations == {60, 120}
NumberOfRounds == {1, 2}
Words == { <<"a", "b">>, <<"c", " ", "u00E9">>, <<"a", "b", "c", "d", "e", "f">> }
Texts == { <<>>, <<"a">>, <<"a", "b">> }
Lines == {"line"}

\* Display of a Username (data.rs Display for Username writes the name).
Username(id) == <<"user", ToString(id)>>

\* char::is_whitespace
is_whitespace(ch) == ch = " "

\* bytes of a char in UTF-8 (str::len counts bytes); "u00E9" is the one
\* two-byte char of the alphabet.
Utf8Len(ch) == IF ch = "u00E9" THEN 2 ELSE 1

RECURSIVE StrLen(_)
StrLen(w) == IF w = <<>> THEN 0 ELSE Utf8Len(Head(w)) + StrLen(Tail(w))

\* byte offset -> char pairs of word.chars().enumerate(): enumerate counts chars
CharIndices(w) == { i - 1 : i \in 1..Len(w) }

\* char::eq_ignore_ascii_case
ToAsciiLower(ch) == CASE ch = "A" -> "a" [] ch = "B" -> "b" [] OTHER -> ch
eq_ignore_ascii_case(c1, c2) == ToAsciiLower(c1) = ToAsciiLower(c2)

Min2(x, y) == IF x <= y THEN x ELSE y
Max2(x, y) == IF x >= y THEN x ELSE y

\* matrix[j][i] of levenshtein_distance(a, b)
RECURSIVE LevMatrix(_, _, _, _)
LevMatrix(w1, w2, j, i) ==
    IF j = 0 THEN i
    ELSE IF i = 0 THEN j
    ELSE IF eq_ignore_ascii_case(w1[i], w2[j])
         THEN LevMatrix(w1, w2, j - 1, i - 1)
         ELSE 1 + Min2(Min2(LevMatrix(w1, w2, j, i - 1), LevMatrix(w1, w2, j - 1, i)),
                       LevMatrix(w1, w2, j - 1, i - 1))

levenshtein_distance(a, b) == LevMatrix(a, b, Len(b), Len(a))

\* 50 + ((remaining_time as f64 / ROUND_DURATION as f64) * 100f64) as u32 / 2
\* (the f64 product truncates to the integer quotient for every
\* remaining_time in 0..ROUND_DURATION)
calculate_score_increase(remaining_time) ==
    50 + ((remaining_time * 100) \div ROUND_DURATION) \div 2

\* ------------------------------------------------------------------- state
VARIABLES
    default_game_opts, \* GameServer.default_game_opts, cloned into each room
    users,       \* GameServer.users: ids registered with the server
    queue,       \* GameServer.queue
    rooms,       \* GameServer.rooms: user_count of each ServerRoom
    server,      \* "running" | "stopped" | "panicked"
    session,     \* UserSession.state per id, "None" before the actor exists
    sessions,    \* GameRoom.sessions: ids in the room
    state,       \* GameRoom.state: "Idle" | "InGame"
    game,        \* the Skribbl of GameState::InGame
    mailbox,     \* the room actor's mailbox
    room,        \* "running" | "stopped" | "panicked"
    timers,      \* run_later futures pending on the room's context
    now,         \* get_time_now()
    sent,        \* messages the room sent while handling the last event
    handled,     \* the last event the room handled
    frames,      \* client frames the sessions have handled so far
    ended,       \* GameEnd has been enqueued since the last GameStart
    inbox,       \* one UserSession's mailbox of ToClientMsg
    items,       \* the futures that session's context has spawned
    sink,        \* UserSession.sink: TRUE while it holds Some(sink)
    wire,        \* what that session has written to its connection
    user,        \* that session's actor: "running" | "stopped" | "panicked"
    stop_signals, \* the actors a StopSignal has been sent to
    codec,       \* the T of one connection's GameMessage<T>
    encoded,     \* the messages the peer's Encoder has been given
    pipe,        \* encoded bytes the socket has not delivered yet
    buf,         \* the BytesMut the Decoder is called on
    rx,          \* the results of the Decoder's calls, in order
    word1,       \* levenshtein_distance: first argument
    word2,       \* levenshtein_distance: second argument
    lev_result   \* levenshtein_distance: the returned value, -1 before the call

vars == <<default_game_opts, users, queue, rooms, server, session, sessions, state, game,
          mailbox, room, timers, now, sent, handled, frames, ended,
          inbox, items, sink, wire, user, stop_signals,
          codec, encoded, pipe, buf, rx, word1, word2, lev_result>>

\* the variables no action of a running server or room changes
SessionIO == <<inbox, items, sink, wire, user>>
CodecIO == <<codec, encoded, pipe, buf, rx>>
LevIO == <<word1, word2, lev_result>>
Fixed == <<default_game_opts, SessionIO, stop_signals, CodecIO, LevIO>>

\* ---------------------------------------------------------------- messages
NoState == [current_round |-> 0, last_round |-> 0, turn_end_time |-> 0,
            word_length |-> 0, revealed_characters |-> {}, canvas |-> <<>>,
            remaining_players |-> <<>>, players |-> <<>>, drawing_user |-> 0]

None == [some |-> FALSE, v |-> <<>>]
Some(w) == [some |-> TRUE, v |-> w]

ToClient(kind, from, text, word, st) ==
    [kind |-> kind, from |-> from, text |-> text, word |-> word, st |-> st]

SystemMsg(text) == ToClient("SystemMsg", 0, text, None, NoState)
UserMsg(id, text) == ToClient("UserMsg", id, text, None, NoState)
SkribblRoundStart(word, st) == ToClient("SkribblRoundStart", 0, <<>>, word, st)
SkribblRoundEnd(st) == ToClient("SkribblRoundEnd", 0, <<>>, None, st)
NewLineMsg(line) == ToClient("NewLine", 0, <<line>>, None, NoState)
ClearCanvasMsg == ToClient("ClearCanvas", 0, <<>>, None, NoState)
JoinRoom(initial_state) == ToClient("JoinRoom", 0, <<>>, None, initial_state)

\* one do_send to a session's address
Send(id, msg) == [to |-> id, msg |-> msg]

\* room events
Event(kind, id, body) == [kind |-> kind, id |-> id, body |-> body]
Connect(id) == Event("Connect", id, <<>>)
NewMessage(id, text) == Event("NewMessage", id, text)
NewLine(id, line) == Event("NewLine", id, <<line>>)
ClearCanvas(id) == Event("ClearCanvas", id, <<>>)
GameStart == Event("GameStart", 0, <<>>)
TurnStart == Event("TurnStart", 0, <<>>)
TurnOver == Event("TurnOver", 0, <<>>)
GameEnd == Event("GameEnd", 0, <<>>)
NoEvent == Event("None", 0, <<>>)

\* ---------------------------------------------------------- SkribblState
GamePlayer_new == [score |-> 0, has_solved |-> FALSE]

\* SkribblState::new
SkribblState_new(players, number_of_rounds) ==
    [current_round |-> 0, last_round |-> number_of_rounds, turn_end_time |-> 0,
     word_length |-> 0, revealed_characters |-> {}, canvas |-> <<>>,
     remaining_players |-> <<>>,
     players |-> [id \in players |-> GamePlayer_new],
     drawing_user |-> 0]

\* Skribbl::new
Skribbl_new(players, opts) ==
    [current_word |-> <<>>,
     state |-> SkribblState_new(players, opts.number_of_rounds),
     game_opts |-> opts,
     turn_timer |-> 0]

NoGame == Skribbl_new({}, [number_of_rounds |-> 0, round_duration |-> 0])

\* all orders in which a HashMap's keys can be collected into a Vec
Orders(S) == { q \in [1..Cardinality(S) -> S] : \A i, j \in 1..Cardinality(S) : q[i] = q[j] => i = j }

\* SkribblState::remaining_round_time
remaining_round_time(st) == Max2(0, st.turn_end_time - now)

\* an is_drawing that takes every sender for the drawer
is_drawing_anyone(st, id) == TRUE

\* SkribblState::is_drawing
is_drawing(st, id) == st.drawing_user = id

\* SkribblState::next, for one order of the refilled remaining_players.
\* The pop().unwrap() panics when no player is left.
next_can_pop(st) == st.remaining_players # <<>> \/ DOMAIN st.players # {}

\* a next that clears neither has_solved nor the canvas
SkribblState_next_stale(st, word, refill) ==
    LET round_over == st.remaining_players = <<>>
        remaining == IF round_over THEN refill ELSE st.remaining_players
    IN  [st EXCEPT !.word_length = StrLen(word),
                   !.turn_end_time = now + ROUND_DURATION,
                   !.revealed_characters = {},
                   !.remaining_players = SubSeq(remaining, 1, Len(remaining) - 1),
                   !.current_round = IF round_over THEN @ + 1 ELSE @,
                   !.drawing_user = remaining[Len(remaining)]]

\* a next that reads the last of remaining_players without popping it
SkribblState_next_peek(st, word, refill) ==
    LET revealed == { <<i, word[i + 1]>> : i \in { k \in CharIndices(word) : is_whitespace(word[k + 1]) } }
        round_over == st.remaining_players = <<>>
        remaining == IF round_over THEN refill ELSE st.remaining_players
    IN  [st EXCEPT !.canvas = <<>>,
                   !.word_length = StrLen(word),
                   !.turn_end_time = now + ROUND_DURATION,
                   !.revealed_characters = revealed,
                   !.remaining_players = remaining,
                   !.current_round = IF round_over THEN @ + 1 ELSE @,
                   !.drawing_user = remaining[Len(remaining)],
                   !.players = [id \in DOMAIN st.players |-> [st.players[id] EXCEPT !.has_solved = FALSE]]]

SkribblState_next(st, word, refill) ==
    LET revealed == { <<i, word[i + 1]>> : i \in { k \in CharIndices(word) : is_whitespace(word[k + 1]) } }
        round_over == st.remaining_players = <<>>
        remaining == IF round_over THEN refill ELSE st.remaining_players
    IN  [st EXCEPT !.canvas = <<>>,
                   !.word_length = StrLen(word),
                   !.turn_end_time = now + ROUND_DURATION,
                   !.revealed_characters = revealed,
                   !.remaining_players = SubSeq(remaining, 1, Len(remaining) - 1),
                   !.current_round = IF round_over THEN @ + 1 ELSE @,
                   !.drawing_user = remaining[Len(remaining)],
                   !.players = [id \in DOMAIN st.players |-> [st.players[id] EXCEPT !.has_solved = FALSE]]]

\* Skribbl::next_turn
next_turn(g, word, refill) ==
    [g EXCEPT !.state = SkribblState_next(g.state, word, refill),
              !.current_word = word]

\* a can_guess that lets every player guess
can_guess_anyone(g, id) == TRUE

\* Skribbl::can_guess
can_guess(g, id) ==
    /\ ~is_drawing(g.state, id)
    /\ ~(IF id \in DOMAIN g.state.players THEN g.state.players[id].has_solved ELSE FALSE)

\* Skribbl::has_any_solved
has_any_solved(g) ==
    \A id \in DOMAIN g.state.players :
        g.state.players[id].has_solved \/ id = g.state.drawing_user

\* GamePlayer::on_solve
on_solve(player, remaining_time) ==
    [score |-> player.score + calculate_score_increase(remaining_time),
     has_solved |-> TRUE]

\* Skribbl::do_guess: the returned Option<usize>
do_guess_result(g, id, guess) ==
    IF can_guess(g, id) THEN Some(levenshtein_distance(guess, g.current_word)) ELSE None

\* Skribbl::do_guess: the state it leaves (id is a key of players)
do_guess(g, id, guess) ==
    IF can_guess(g, id) /\ levenshtein_distance(guess, g.current_word) = 0
    THEN LET remaining_time == remaining_round_time(g.state)
             g1 == IF has_any_solved(g)
                   THEN [g EXCEPT !.state.turn_end_time = @ - remaining_time \div 2]
                   ELSE g
         IN  [g1 EXCEPT !.state.players[id] = on_solve(@, remaining_time)]
    ELSE g

\* Skribbl::has_turn_ended
has_turn_ended(g) == \A id \in DOMAIN g.state.players : g.state.players[id].has_solved

\* Skribbl::has_round_ended
has_round_ended(g) == g.state.remaining_players = <<>> \/ g.state.turn_end_time <= now

\* Skribbl::is_finished
is_finished(g) == has_round_ended(g) /\ g.state.current_round = g.game_opts.number_of_rounds

\* Skribbl::get_non_guessing_players
get_non_guessing_players(g) ==
    { id \in DOMAIN g.state.players : g.state.players[id].has_solved \/ id = g.state.drawing_user }

\* an add_player that queues the joiner to draw without making them a player
add_player_unlisted(g, id) ==
    IF id \notin DOMAIN g.state.players
    THEN [g EXCEPT !.state.remaining_players = Append(@, id)]
    ELSE g

\* Skribbl::add_player
add_player(g, id) ==
    IF id \notin DOMAIN g.state.players
    THEN [g EXCEPT !.state.remaining_players = Append(@, id),
                   !.state.players = [p \in DOMAIN @ \cup {id} |->
                                        IF p = id THEN GamePlayer_new ELSE @[p]]]
    ELSE g

\* Skribbl::clear_canvas
clear_canvas(g) == [g EXCEPT !.state.canvas = <<>>]

\* ------------------------------------------------------------ GameRoom
RECURSIVE SetToSeq(_)
SetToSeq(S) ==
    IF S = {} THEN <<>>
    ELSE LET m == CHOOSE x \in S : \A y \in S : x <= y
         IN  <<m>> \o SetToSeq(S \ {m})

\* GameRoom::send
send(recipient_id, msg) ==
    IF recipient_id \in sessions THEN <<Send(recipient_id, msg)>> ELSE <<>>

\* a send_message that reaches every session of the room
send_message_everyone(recipient_id, text) ==
    [i \in 1..Cardinality(sessions) |-> Send(SetToSeq(sessions)[i], SystemMsg(text))]

\* GameRoom::send_message
send_message(recipient_id, text) == send(recipient_id, SystemMsg(text))

\* GameRoom::broadcast over a sessions map
broadcast_to(ids, msg) == [i \in 1..Cardinality(ids) |-> Send(SetToSeq(ids)[i], msg)]

\* GameRoom::broadcast
broadcast(msg) == broadcast_to(sessions, msg)

\* GameRoom::broadcast_system_msg
broadcast_system_msg(text) == broadcast(SystemMsg(text))

\* a broadcast_except that does not filter the excepted id
broadcast_except_unfiltered(msg, id) == broadcast_to(sessions, msg)

\* GameRoom::broadcast_except
broadcast_except(msg, id) == broadcast_to(sessions \ {id}, msg)

\* GameState::start_game (the room is never InLobby: default_game_opts)
start_game(players, opts) == Skribbl_new(players, opts)

\* the room takes the next message of its mailbox
Takes(kind) ==
    /\ room = "running"
    /\ mailbox # <<>>
    /\ Head(mailbox).kind = kind
    /\ handled' = Head(mailbox)

ServerVars == <<Fixed, users, queue, rooms, server>>

\* a start condition that one user meets
enough_users_alone(n) == n >= 1

\* `self.sessions.len() >= 2`: Idle games start when enough users join
enough_users(n) == n >= 2

\* Handler<GameSessionEvent>::handle, Connect
RoomConnect ==
    /\ Takes("Connect")
    /\ LET user_id == Head(mailbox).id
           joined == broadcast_to(sessions \cup {user_id},
                                  SystemMsg(Username(user_id) \o <<" has joined game room.">>))
       IN  /\ sessions' = sessions \cup {user_id}
           /\ IF state = "Idle"
              THEN /\ game' = game
                   /\ IF enough_users(Cardinality(sessions'))
                      THEN /\ mailbox' = Append(Tail(mailbox), GameStart)
                           /\ sent' = joined \o <<Send(user_id, JoinRoom(NoState))>>
                      ELSE /\ mailbox' = Tail(mailbox)
                           /\ sent' = joined
                                \o broadcast_to(sessions', SystemMsg(<<"waiting for more users to join the game..">>))
                                \o <<Send(user_id, JoinRoom(NoState))>>
              ELSE /\ game' = add_player(game, user_id)
                   /\ mailbox' = Tail(mailbox)
                   /\ sent' = joined \o <<Send(user_id, JoinRoom(game'.state))>>
           \* addr.do_send(JoinRoom(..)): Handler<JoinRoom> sets UserState::InGame
           /\ session' = [session EXCEPT ![user_id] = IF @ = "InQueue" THEN "InGame" ELSE @]
    /\ UNCHANGED <<ServerVars, frames, ended, state, room, timers, now>>

\* GameRoom::on_guess panics on an unwrap()/expect() of a missing id
on_guess_panics(sender_id, message) ==
    \/ sender_id \notin sessions
    \/ /\ state = "InGame"
       /\ LET res == do_guess_result(game, sender_id, message) IN
          \/ res.some /\ res.v = 0 /\ sender_id \notin DOMAIN game.state.players
          \/ ~res.some /\ ~(get_non_guessing_players(game) \subseteq sessions)

\* GameRoom::on_guess
on_guess(sender_id, message) ==
    LET message_broadcast == UserMsg(sender_id, message)
        res == do_guess_result(game, sender_id, message)
    IN  IF on_guess_panics(sender_id, message)
        THEN /\ room' = "panicked"
             /\ game' = game
             /\ sent' = <<>>
             /\ mailbox' = Tail(mailbox)
        ELSE /\ room' = room
             /\ IF state = "InGame"
                THEN /\ game' = do_guess(game, sender_id, message)
                     /\ IF res.some
                        THEN CASE res.v = 0 ->
                                    /\ sent' = broadcast_system_msg(Username(sender_id) \o <<" guessed it!">>)
                                    /\ mailbox' = IF has_turn_ended(game')
                                                  THEN Append(Tail(mailbox), TurnOver)
                                                  ELSE Tail(mailbox)
                               [] res.v = 1 ->
                                    /\ sent' = send_message(sender_id, <<"You're very close!">>)
                                    /\ mailbox' = Tail(mailbox)
                               [] OTHER ->
                                    /\ sent' = broadcast(message_broadcast)
                                    /\ mailbox' = Tail(mailbox)
                        ELSE \* player cannot guess, send message to all users who can't
                             /\ sent' = broadcast_to(get_non_guessing_players(game), message_broadcast)
                             /\ mailbox' = Tail(mailbox)
                ELSE /\ game' = game
                     /\ sent' = broadcast(message_broadcast)
                     /\ mailbox' = Tail(mailbox)

\* Handler<GameSessionEvent>::handle, SessionMessage(NewMessage)
RoomNewMessage ==
    /\ Takes("NewMessage")
    /\ on_guess(Head(mailbox).id, Head(mailbox).body)
    /\ UNCHANGED <<ServerVars, frames, ended, session, sessions, state, timers, now>>

\* Handler<GameSessionEvent>::handle, SessionMessage(NewLine)
RoomNewLine ==
    /\ Takes("NewLine")
    /\ LET sender_id == Head(mailbox).id
           line == Head(mailbox).body[1]
       IN  IF state = "InGame"
           THEN IF is_drawing(game.state, sender_id)
                THEN /\ game' = [game EXCEPT !.state.canvas = Append(@, line)]
                     /\ sent' = broadcast_except(NewLineMsg(line), sender_id)
                ELSE /\ game' = game
                     /\ sent' = send_message(sender_id, <<"It is not your turn to draw!">>)
           ELSE /\ game' = game
                /\ sent' = <<>>
    /\ mailbox' = Tail(mailbox)
    /\ UNCHANGED <<ServerVars, frames, ended, session, sessions, state, room, timers, now>>

\* Handler<GameSessionEvent>::handle, SessionMessage(ClearCanvas)
RoomClearCanvas ==
    /\ Takes("ClearCanvas")
    /\ IF state = "InGame"
       THEN /\ game' = clear_canvas(game)
            /\ sent' = broadcast(ClearCanvasMsg)
       ELSE /\ game' = game
            /\ sent' = <<>>
    /\ mailbox' = Tail(mailbox)
    /\ UNCHANGED <<ServerVars, frames, ended, session, sessions, state, room, timers, now>>

\* Handler<SkribblEvent>::handle, GameStart
RoomGameStart ==
    /\ Takes("GameStart")
    /\ state' = "InGame"
    /\ game' = start_game(sessions, default_game_opts)
    /\ mailbox' = Append(Tail(mailbox), TurnStart)
    /\ sent' = <<>>
    /\ ended' = FALSE
    /\ UNCHANGED <<ServerVars, frames, session, sessions, room, timers, now>>

\* Handler<SkribblEvent>::handle, TurnStart with a game
RoomTurnStart ==
    /\ Takes("TurnStart")
    /\ state = "InGame"
    /\ IF ~next_can_pop(game.state)
       THEN \* self.remaining_players.pop().unwrap()
            /\ room' = "panicked"
            /\ UNCHANGED <<game, timers>>
            /\ sent' = <<>>
       ELSE \E random_word \in Words, refill \in Orders(DOMAIN game.state.players) :
            LET handle == timers.next
                g == [next_turn(game, random_word, refill) EXCEPT !.turn_timer = handle]
                drawing_user == g.state.drawing_user
            IN  /\ game' = g
                /\ timers' = [next |-> handle + 1,
                              pending |-> timers.pending \cup
                                  {[handle |-> handle, at |-> now + g.game_opts.round_duration]}]
                /\ sent' = send(drawing_user, SkribblRoundStart(Some(g.current_word), g.state))
                             \o broadcast_except(SkribblRoundStart(None, g.state), drawing_user)
                /\ room' = room
    /\ mailbox' = Tail(mailbox)
    /\ UNCHANGED <<ServerVars, frames, ended, session, sessions, state, now>>

\* Handler<SkribblEvent>::handle, TurnOver with a game
RoomTurnOver ==
    /\ Takes("TurnOver")
    /\ state = "InGame"
    /\ timers' = [timers EXCEPT !.pending = { t \in @ : t.handle # game.turn_timer }]
    /\ sent' = broadcast_system_msg(<<"The word was: ">> \o game.current_word)
                 \o broadcast(SkribblRoundEnd(game.state))
    /\ mailbox' = Append(Tail(mailbox), IF is_finished(game) THEN GameEnd ELSE TurnStart)
    /\ ended' = (ended \/ is_finished(game))
    /\ UNCHANGED <<ServerVars, frames, session, sessions, state, game, room, now>>

\* Handler<SkribblEvent>::handle, the `_ => {}` arm: GameEnd, and TurnStart or
\* TurnOver without a game
RoomIgnore ==
    /\ \/ Takes("GameEnd")
       \/ Takes("TurnStart") /\ state # "InGame"
       \/ Takes("TurnOver") /\ state # "InGame"
    /\ mailbox' = Tail(mailbox)
    /\ sent' = <<>>
    /\ UNCHANGED <<ServerVars, frames, ended, session, sessions, state, game, room, timers, now>>

\* the run_later closure of TurnStart: the deadline passed and the future
\* was not cancelled
TimerFires ==
    /\ room = "running"
    /\ \E t \in timers.pending :
        /\ t.at <= now
        /\ timers' = [timers EXCEPT !.pending = @ \ {t}]
    /\ mailbox' = Append(mailbox, TurnOver)
    /\ UNCHANGED <<ServerVars, frames, ended, session, sessions, state, game, room, now, sent, handled>>

\* the wall clock advances; a due timer fires first and the room empties its
\* mailbox within the clock's step.  No handler reads the clock before a game
\* exists, so time is counted from the first GameStart.
Tick ==
    /\ state = "InGame"
    /\ room = "running" => mailbox = <<>>
    /\ \A t \in timers.pending : room = "running" => t.at > now
    /\ \E d \in TimeStep :
        /\ now + d <= MaxTicks * d
        /\ now' = now + d
    /\ UNCHANGED <<ServerVars, frames, ended, session, sessions, state, game, mailbox, room, timers, sent, handled>>

RoomVars == <<sessions, state, game, mailbox, room, timers, sent, handled, frames, ended>>

\* ----------------------------------------------------------- UserSession
\* StreamHandler<WebSocketMessage>::handle, a Text frame while InGame
SessionMessage ==
    /\ frames < MaxMessages
    /\ frames' = frames + 1
    /\ room = "running"
    /\ \E id \in PlayerIds :
        /\ session[id] = "InGame"
        /\ \E msg \in { NewMessage(id, text) : text \in Texts }
                      \cup { NewLine(id, line) : line \in Lines }
                      \cup { ClearCanvas(id) } :
             /\ msg.kind = "NewLine" /\ state = "InGame" => Len(game.state.canvas) < MaxCanvas
             /\ mailbox' = Append(mailbox, msg)
    /\ UNCHANGED <<ServerVars, ended, session, sessions, state, game, room, timers, now, sent, handled>>

\* ------------------------------------------------------------ GameServer
\* UserSession::started: the server handles ServerRequest::Connect, then the
\* FindRoom the session sends on its reply (the session handles nothing in
\* between: the request future is waited on)
SessionStarted ==
    /\ server = "running"
    /\ \E id \in PlayerIds :
        /\ session[id] = "None"
        /\ \A other \in PlayerIds : other < id => session[other] # "None"
        /\ users' = users \cup {id}
        /\ queue' = Append(queue, id)
        /\ session' = [session EXCEPT ![id] = "InQueue"]
    /\ UNCHANGED <<Fixed, rooms, server, RoomVars, now>>

\* VecDeque::contains
Contains(q, x) == \E i \in 1..Len(q) : q[i] = x

\* VecDeque::remove(index): index counts from 0, out of range removes nothing
VecDequeRemove(q, index) ==
    IF index < Len(q)
    THEN SubSeq(q, 1, index) \o SubSeq(q, index + 2, Len(q))
    ELSE q

\* UserSession::close and Handler<ServerRequest>::handle, Disconnect
ServerDisconnect ==
    /\ server = "running"
    /\ Cardinality({ id \in PlayerIds : session[id] = "Stopped" }) < MaxDisconnects
    /\ \E user_id \in PlayerIds :
        /\ session[user_id] \in {"InQueue", "InGame"}
        /\ queue' = IF Contains(queue, user_id) THEN VecDequeRemove(queue, user_id) ELSE queue
        /\ users' = users \ {user_id}
        /\ session' = [session EXCEPT ![user_id] = "Stopped"]
    /\ UNCHANGED <<Fixed, rooms, server, RoomVars, now>>

\* BinaryHeap<ServerRoom>::pop: a room of least user_count
HeapPop(rms) == { r \in 1..Len(rms) : \A o \in 1..Len(rms) : rms[r] <= rms[o] }

\* the `while let Some(user_id) = this.queue.pop_front()` loop of the
\* matchmaking interval: every way it can end
RECURSIVE Drain(_, _, _)
Drain(q, rms, connects) ==
    IF q = <<>>
    THEN { [queue |-> q, rooms |-> rms, connects |-> connects, server |-> "running"] }
    ELSE IF Head(q) \notin users
         THEN \* this.users.get_mut(&user_id).unwrap()
              { [queue |-> Tail(q), rooms |-> rms, connects |-> connects, server |-> "panicked"] }
         ELSE UNION { Drain(Tail(q), [rms EXCEPT ![r] = @ + 1], Append(connects, <<Head(q), r>>))
                      : r \in HeapPop(rms) }

\* GameServer::started, the run_interval closure.  Room 1 is the room whose
\* actor is modelled; a user sent to another room leaves the model.
Matchmaking ==
    /\ server = "running"
    /\ queue # <<>>
    /\ LET spawned == IF rooms = <<>> \/ Len(queue) > 3 THEN Append(rooms, 0) ELSE rooms IN
       \E out \in Drain(queue, spawned, <<>>) :
        /\ queue' = out.queue
        /\ rooms' = out.rooms
        /\ server' = out.server
        /\ mailbox' = mailbox \o [i \in 1..Len(SelectSeq(out.connects, LAMBDA c : c[2] = 1)) |->
                                     Connect(SelectSeq(out.connects, LAMBDA c : c[2] = 1)[i][1])]
        /\ session' = [id \in PlayerIds |->
                         IF \E i \in 1..Len(out.connects) : out.connects[i] = <<id, 1>>
                         THEN session[id]
                         ELSE IF \E i \in 1..Len(out.connects) : out.connects[i][1] = id
                              THEN "Elsewhere" ELSE session[id]]
    /\ UNCHANGED <<Fixed, users, sessions, state, game, room, timers, now, sent,
                   handled, frames, ended>>

\* ------------------------------------------------------- specification
GameOptsSet == [number_of_rounds : NumberOfRounds, round_duration : RoundDurations]

\* the server, its room and one session after construction
InitGame ==
    /\ default_game_opts \in GameOptsSet
    /\ users = {}
    /\ queue = <<>>
    /\ rooms = <<>>
    /\ server = "running"
    /\ session = [id \in PlayerIds |-> "None"]
    /\ sessions = {}
    /\ state = "Idle"
    /\ game = NoGame
    /\ mailbox = <<>>
    /\ room = "running"
    /\ timers = [next |-> 1, pending |-> {}]
    /\ now = 0
    /\ sent = <<>>
    /\ handled = NoEvent
    /\ frames = 0
    /\ ended = FALSE
    /\ inbox = <<>>
    /\ items = {}
    /\ sink = TRUE
    /\ wire = <<>>
    /\ user = "running"
    /\ stop_signals = {}

\* a connection nothing has been written to, and no call of
\* levenshtein_distance
InitIdle ==
    /\ encoded = <<>> /\ pipe = <<>> /\ buf = <<>> /\ rx = <<>>
    /\ lev_result = -1

Init ==
    /\ InitGame
    /\ codec = "ClientMsg"
    /\ InitIdle
    /\ word1 = <<>>
    /\ word2 = <<>>

Next ==
    \/ SessionStarted
    \/ Matchmaking
    \/ SessionMessage
    \/ RoomConnect
    \/ RoomNewMessage
    \/ RoomNewLine
    \/ RoomClearCanvas
    \/ RoomGameStart
    \/ RoomTurnStart
    \/ RoomTurnOver
    \/ RoomIgnore
    \/ TimerFires
    \/ Tick

Spec == Init /\ [][Next]_vars

\* the same system when sessions close and clients send no frame
NextLeave ==
    \/ SessionStarted
    \/ ServerDisconnect
    \/ Matchmaking
    \/ RoomConnect
    \/ RoomGameStart
    \/ RoomTurnStart
    \/ RoomTurnOver
    \/ RoomIgnore
    \/ TimerFires
    \/ Tick

SpecLeave == Init /\ [][NextLeave]_vars

\* ------------------------------------------- one session's write path
\* what the actions of the session's write path leave alone
ServerAndRoom == <<default_game_opts, users, queue, rooms, server, session, sessions,
                   state, game, mailbox, room, timers, now, sent, handled, frames, ended,
                   stop_signals, CodecIO, LevIO>>

\* the ToClientMsg values the room sends here (nothing constructs a Kick)
SessionMsgs == { SystemMsg(<<"a">>), ClearCanvasMsg }

\* messages the room has sent to this session so far
SentToSession == Len(wire) + Cardinality(items) + Len(inbox)

\* pl.addr.do_send(msg) of GameRoom::broadcast, while the room handles its
\* next event: the message is tagged with the number of that event
RoomDoSend ==
    /\ user = "running"
    /\ SentToSession < MaxSends
    /\ \E msg \in SessionMsgs :
          inbox' = Append(inbox, [event |-> SentToSession + 1, msg |-> msg])
    /\ UNCHANGED <<items, sink, wire, user, ServerAndRoom>>

\* Handler<ToClientMsg> for UserSession: the returned ResponseActFuture is
\* spawned on the context and the handler returns
HandleToClientMsg ==
    /\ user = "running"
    /\ inbox # <<>>
    /\ items' = items \cup {[event |-> Head(inbox).event, msg |-> Head(inbox).msg,
                             stage |-> "spawned"]}
    /\ inbox' = Tail(inbox)
    /\ UNCHANGED <<sink, wire, user, ServerAndRoom>>

\* first `then` of a spawned future: this.sink.take().unwrap()
FutureTakesSink ==
    /\ user = "running"
    /\ \E it \in items :
          /\ it.stage = "spawned"
          /\ IF sink
             THEN /\ sink' = FALSE
                  /\ items' = (items \ {it}) \cup {[it EXCEPT !.stage = "sending"]}
                  /\ user' = user
             ELSE /\ user' = "panicked"
                  /\ UNCHANGED <<sink, items>>
    /\ UNCHANGED <<inbox, wire, ServerAndRoom>>

\* sink.send(msg) completes, with or without an error; second `then`:
\* this.sink = Some(res.1)
FutureSendDone ==
    /\ user = "running"
    /\ \E it \in items, ok \in BOOLEAN :
          /\ it.stage = "sending"
          /\ wire' = Append(wire, [event |-> it.event, msg |-> it.msg, ok |-> ok])
          /\ items' = items \ {it}
    /\ sink' = TRUE
    /\ UNCHANGED <<inbox, user, ServerAndRoom>>

NextSession ==
    \/ RoomDoSend
    \/ HandleToClientMsg
    \/ FutureTakesSink
    \/ FutureSendDone

SpecSession == Init /\ [][NextSession]_vars

\* ------------------------------------------------ the Skribbl engine alone
\* what the calls on a Skribbl leave alone
OutsideEngine == <<default_game_opts, users, queue, rooms, server, session, sessions,
                   mailbox, timers, now, sent, handled, frames, ended, SessionIO,
                   stop_signals, CodecIO, LevIO>>

\* lines of a words file after read_words_file: trimmed and not empty
EngineWords == { <<"a", "b">>, <<"a", " ", " ", " ", "b">>,
                 <<"a", "b", "c", "d", "e", "f">> }

\* SkribblState::can_reveal_char
can_reveal_char(st) == Cardinality(st.revealed_characters) < st.word_length \div 2

\* the (idx, ch) pairs reveal_random_char chooses from
Unrevealed(g) ==
    { i \in CharIndices(g.current_word) :
        \A p \in g.state.revealed_characters : p[1] # i }

\* Skribbl::reveal_random_char, for the pair it chose
reveal_random_char(g, idx) ==
    [g EXCEPT !.state.revealed_characters = @ \cup {<<idx, g.current_word[idx + 1]>>}]

\* Skribbl::new on the players of a room
EngineNew ==
    /\ state = "Idle"
    /\ \E players \in SUBSET PlayerIds :
          /\ Cardinality(players) >= 2
          /\ game' = Skribbl_new(players, default_game_opts)
    /\ state' = "InGame"
    /\ UNCHANGED <<room, OutsideEngine>>

\* Skribbl::next_turn
EngineNextTurn ==
    /\ state = "InGame"
    /\ room = "running"
    /\ game.state.current_round < MaxEngineRounds \/ game.state.remaining_players # <<>>
    /\ \E random_word \in EngineWords, refill \in Orders(DOMAIN game.state.players) :
          game' = next_turn(game, random_word, refill)
    /\ UNCHANGED <<state, room, OutsideEngine>>

\* Skribbl::reveal_random_char; without can_reveal_char it does nothing, and
\* choose(..).unwrap() panics when every character is revealed
EngineReveal ==
    /\ state = "InGame"
    /\ room = "running"
    /\ can_reveal_char(game.state)
    /\ IF Unrevealed(game) = {}
       THEN room' = "panicked" /\ game' = game
       ELSE /\ \E idx \in Unrevealed(game) : game' = reveal_random_char(game, idx)
            /\ room' = room
    /\ UNCHANGED <<state, OutsideEngine>>

\* Skribbl::add_player
EngineAddPlayer ==
    /\ state = "InGame"
    /\ room = "running"
    /\ \E id \in PlayerIds : game' = add_player(game, id) /\ game' # game
    /\ UNCHANGED <<state, room, OutsideEngine>>

NextEngine ==
    \/ EngineNew
    \/ EngineNextTurn
    \/ EngineReveal
    \/ EngineAddPlayer

SpecEngine == Init /\ [][NextEngine]_vars

\* ------------------------------------------- the frame codec (bincode)
\* GameMessage<T> of message.rs and NetworkMessage<T> of network.rs are the
\* same Encoder and Decoder; the message types are those of message.rs.
\* bincode::serialize is bincode's default format: integers are fixed-width
\* little-endian, an enum is its variant index as u32, a String is its byte
\* length as u64 and its UTF-8 bytes, an Option is a tag byte.  Strings of
\* this section are sequences of code points, bytes are 0..255.

\* every variable but those of the connection and of levenshtein_distance
GameIO == <<default_game_opts, users, queue, rooms, server, session, sessions, state,
            game, mailbox, room, timers, now, sent, handled, frames, ended, SessionIO,
            stop_signals>>

Fail == [ok |-> FALSE, v |-> <<>>, rest |-> <<>>]
Ok(v, rest) == [ok |-> TRUE, v |-> v, rest |-> rest]
Drop(bs, n) == SubSeq(bs, n + 1, Len(bs))
\* `?` of a read: an error ends it, a value and the bytes after it go on to F
Bind(r, F(_, _)) == IF r.ok THEN F(r.v, r.rest) ELSE Fail

put_u16(n) == <<n % 256, n \div 256>>
put_u32(n) == put_u16(n % 65536) \o put_u16(n \div 65536)
\* (every integer of this model is below 2^31: the high half of a u64 is 0)
put_u64(n) == put_u32(n) \o put_u32(0)

get_u16(bs) == IF Len(bs) < 2 THEN Fail ELSE Ok(bs[1] + 256 * bs[2], Drop(bs, 2))
get_u32(bs) ==
    IF Len(bs) < 4 THEN Fail
    ELSE Ok(get_u16(bs).v + 65536 * get_u16(Drop(bs, 2)).v, Drop(bs, 4))
\* a u64 of 2^32 or more is read as 2^31 - 1, more than any buffer holds
get_u64(bs) ==
    IF Len(bs) < 8 THEN Fail
    ELSE IF get_u32(Drop(bs, 4)).v # 0 THEN Ok(2147483647, Drop(bs, 8))
    ELSE Ok(get_u32(bs).v, Drop(bs, 8))

\* str::as_bytes: char::encode_utf8 of every char, for code points below
\* U+0800
RECURSIVE as_bytes(_)
as_bytes(s) ==
    IF s = <<>> THEN <<>>
    ELSE (IF Head(s) < 128 THEN <<Head(s)>>
          ELSE <<192 + (Head(s) \div 64), 128 + (Head(s) % 64)>>) \o as_bytes(Tail(s))

\* String::from_utf8 on one- and two-byte sequences (no frame of this model
\* holds the lead byte of a longer one)
RECURSIVE from_utf8(_)
from_utf8(bs) ==
    IF bs = <<>> THEN Ok(<<>>, <<>>)
    ELSE IF bs[1] < 128
         THEN Bind(from_utf8(Drop(bs, 1)), LAMBDA t, none : Ok(<<bs[1]>> \o t, <<>>))
    ELSE IF bs[1] \in 194..223 /\ Len(bs) >= 2 /\ bs[2] \in 128..191
         THEN Bind(from_utf8(Drop(bs, 2)),
                   LAMBDA t, none : Ok(<<(bs[1] - 192) * 64 + (bs[2] - 128)>> \o t, <<>>))
    ELSE Fail

\* ---- Serialize; the variant index of an enum is put_u32(index)
\* a String whose length is written as u16
ser_str_u16(s) == put_u16(Len(as_bytes(s))) \o as_bytes(s)

ser_str(s) == put_u64(Len(as_bytes(s))) \o as_bytes(s)

\* data.rs Username { name, unique_id }; unique_id is an Option<String>
ser_username(u) ==
    ser_str(u.name) \o (IF u.unique_id.some THEN <<1>> \o ser_str(u.unique_id.v) ELSE <<0>>)

\* data.rs Line { start, end, color }; a Coord is (u16, u16), a CanvasColor
\* is its variant index
ser_line(l) ==
    LET ser_coord(c) == put_u16(c[1]) \o put_u16(c[2])
    IN  ser_coord(l.start) \o ser_coord(l.end) \o put_u32(l.color)

\* bincode::serialize(&msg) for T = ty: the derived Serialize of the types of
\* message.rs
serialize(ty, msg) ==
    LET ser_draw(d) ==
            CASE d[1] = "Clear" -> put_u32(0)
              [] d[1] = "Line" -> put_u32(1) \o ser_line(d[2])
        ser_chat(m) ==
            CASE m[1] = "SystemMsg" -> put_u32(0) \o ser_str(m[2])
              [] m[1] = "UserMsg" -> put_u32(1) \o ser_username(m[2]) \o ser_str(m[3])
        ser_client(m) ==
            CASE m[1] = "Chat" -> put_u32(0) \o ser_chat(m[2])
              [] m[1] = "Draw" -> put_u32(1) \o ser_draw(m[2])
              [] m[1] = "JoinRoom" -> put_u32(2) \o ser_str(m[2])
        ser_game_action(a) ==
            CASE a[1] = "Draw" -> put_u32(0) \o ser_draw(a[2])
              [] a[1] = "TimeChanged" -> put_u32(1) \o put_u32(a[2])
        ser_server(m) ==
            CASE m[1] = "Game" -> put_u32(0) \o ser_game_action(m[2])
              [] m[1] = "MatchMake" -> put_u32(1)
              [] m[1] = "Disconnect" -> put_u32(2)
    IN  IF ty = "ClientMsg" THEN ser_client(msg) ELSE ser_server(msg)

\* ---- Deserialize: the value read and the bytes after it
\* a variant index of an enum of n variants
de_variant(bs, n) ==
    Bind(get_u32(bs), LAMBDA tag, rest : IF tag < n THEN Ok(tag, rest) ELSE Fail)

de_str(bs) ==
    Bind(get_u64(bs), LAMBDA n, rest :
        IF Len(rest) < n THEN Fail
        ELSE Bind(from_utf8(SubSeq(rest, 1, n)), LAMBDA s, none : Ok(s, Drop(rest, n))))

\* Username: a String, then the tag byte of the Option and its String
de_username(bs) ==
    LET de_option_str(b) ==
            IF b = <<>> THEN Fail
            ELSE IF b[1] = 0 THEN Ok(None, Drop(b, 1))
            ELSE IF b[1] = 1
                 THEN Bind(de_str(Drop(b, 1)), LAMBDA s, rest : Ok(Some(s), rest))
            ELSE Fail
    IN  Bind(de_str(bs), LAMBDA name, r1 :
            Bind(de_option_str(r1), LAMBDA id, r2 :
                Ok([name |-> name, unique_id |-> id], r2)))

de_line(bs) ==
    LET de_coord(b) ==
            IF Len(b) < 4 THEN Fail
            ELSE Ok(<<get_u16(b).v, get_u16(Drop(b, 2)).v>>, Drop(b, 4))
    IN  Bind(de_coord(bs), LAMBDA start, r1 :
            Bind(de_coord(r1), LAMBDA end, r2 :
                Bind(de_variant(r2, 16), LAMBDA color, r3 :
                    Ok([start |-> start, end |-> end, color |-> color], r3))))

\* bincode::deserialize(bytes) for T = ty: the derived Deserialize of the
\* types of message.rs; bytes after the value are allowed
deserialize(ty, bytes) ==
    LET de_draw(bs) ==
            Bind(de_variant(bs, 2), LAMBDA tag, rest :
                IF tag = 0 THEN Ok(<<"Clear">>, rest)
                ELSE Bind(de_line(rest), LAMBDA l, r : Ok(<<"Line", l>>, r)))
        de_chat(bs) ==
            Bind(de_variant(bs, 2), LAMBDA tag, rest :
                IF tag = 0
                THEN Bind(de_str(rest), LAMBDA s, r : Ok(<<"SystemMsg", s>>, r))
                ELSE Bind(de_username(rest), LAMBDA u, r1 :
                         Bind(de_str(r1), LAMBDA s, r2 : Ok(<<"UserMsg", u, s>>, r2))))
        de_client(bs) ==
            Bind(de_variant(bs, 3), LAMBDA tag, rest :
                IF tag = 0 THEN Bind(de_chat(rest), LAMBDA c, r : Ok(<<"Chat", c>>, r))
                ELSE IF tag = 1 THEN Bind(de_draw(rest), LAMBDA d, r : Ok(<<"Draw", d>>, r))
                ELSE Bind(de_str(rest), LAMBDA s, r : Ok(<<"JoinRoom", s>>, r)))
        de_game_action(bs) ==
            Bind(de_variant(bs, 2), LAMBDA tag, rest :
                IF tag = 0 THEN Bind(de_draw(rest), LAMBDA d, r : Ok(<<"Draw", d>>, r))
                ELSE Bind(get_u32(rest), LAMBDA n, r : Ok(<<"TimeChanged", n>>, r)))
        de_server(bs) ==
            Bind(de_variant(bs, 3), LAMBDA tag, rest :
                IF tag = 0 THEN Bind(de_game_action(rest), LAMBDA a, r : Ok(<<"Game", a>>, r))
                ELSE IF tag = 1 THEN Ok(<<"MatchMake">>, rest)
                ELSE Ok(<<"Disconnect">>, rest))
    IN  IF ty = "ClientMsg" THEN de_client(bytes) ELSE de_server(bytes)

\* Encoder::encode: buf.put(&msg[..])
encode(ty, msg, dst) == dst \o serialize(ty, msg)

\* Decoder::decode: Ok(None), Ok(Some(decoded)) or Err(_)
decode(ty, bytes) ==
    LET Done(r) == IF r.ok THEN [kind |-> "msg", v |-> r.v] ELSE [kind |-> "err", v |-> <<>>]
    IN  IF bytes = <<>> THEN [kind |-> "none", v |-> <<>>]
        ELSE Done(deserialize(ty, bytes))

\* ---- the messages of type ty and the bytes of the model
CodecMsgs(ty) ==
    LET Strings == { <<>>, <<97, 233>> }
        Usernames == { [name |-> <<97>>, unique_id |-> None],
                       [name |-> <<98>>, unique_id |-> Some(<<97>>)] }
        Draws == { <<"Clear">>,
                   <<"Line", [start |-> <<0, 0>>, end |-> <<1, 258>>, color |-> 3]>> }
        ChatMessages == { <<"SystemMsg", s>> : s \in Strings }
                          \cup { <<"UserMsg", u, <<97>>>> : u \in Usernames }
        ClientMsgs == { <<"Chat", c>> : c \in ChatMessages }
                        \cup { <<"Draw", d>> : d \in Draws }
                        \cup { <<"JoinRoom", s>> : s \in Strings }
        ServerMsgs == { <<"Game", <<"Draw", d>>>> : d \in Draws }
                        \cup { <<"Game", <<"TimeChanged", n>>>> : n \in {0, 70000} }
                        \cup { <<"MatchMake">>, <<"Disconnect">> }
    IN  IF ty = "ClientMsg" THEN ClientMsgs ELSE ServerMsgs

\* bytes of a peer that does not use the Encoder: a frame followed by one
\* more byte, an unknown variant, a String that is not UTF-8, a byte length
\* with nothing after it
RawFrames(ty) ==
    { serialize(ty, m) \o <<0>> : m \in CodecMsgs(ty) }
      \cup { put_u32(9), put_u32(2) \o put_u64(1) \o <<255>>,
             put_u32(2) \o put_u64(3) }

\* Encoder::encode on the peer; the bytes go to the socket
PeerEncode ==
    /\ Len(encoded) < MaxFrames
    /\ \E msg \in CodecMsgs(codec) :
          /\ encoded' = Append(encoded, msg)
          /\ pipe' = encode(codec, msg, pipe)
    /\ UNCHANGED <<codec, buf, rx, LevIO, GameIO>>

\* a peer writes bytes of its own on a new connection
PeerWrite ==
    /\ encoded = <<>> /\ pipe = <<>> /\ buf = <<>>
    /\ \E bytes \in RawFrames(codec) : pipe' = bytes
    /\ UNCHANGED <<codec, encoded, buf, rx, LevIO, GameIO>>

\* the socket delivers its next bytes into the read buffer: all it holds, or
\* the first 8 of them
Receive ==
    /\ pipe # <<>>
    /\ \E n \in ({8} \cap 1..Len(pipe)) \cup {Len(pipe)} :
          /\ buf' = buf \o SubSeq(pipe, 1, n)
          /\ pipe' = Drop(pipe, n)
    /\ UNCHANGED <<codec, encoded, rx, LevIO, GameIO>>

\* Decoder::decode on the read buffer, which it leaves as it is; the read
\* half ends with its first Err
Decode ==
    /\ Len(rx) < MaxDecodes
    /\ \A i \in 1..Len(rx) : rx[i].out.kind # "err"
    /\ rx' = Append(rx, [given |-> buf, out |-> decode(codec, buf)])
    /\ buf' = buf
    /\ UNCHANGED <<codec, encoded, pipe, LevIO, GameIO>>

InitCodec ==
    /\ InitGame
    /\ default_game_opts = [number_of_rounds |-> 1, round_duration |-> ROUND_DURATION]
    /\ codec \in {"ClientMsg", "ServerMsg"}
    /\ InitIdle
    /\ word1 = <<>>
    /\ word2 = <<>>

NextCodec ==
    \/ PeerEncode
    \/ PeerWrite
    \/ Receive
    \/ Decode

SpecCodec == InitCodec /\ [][NextCodec]_vars

\* ------------------------------------------------------------- shutdown
StopSignal == Event("StopSignal", 0, <<>>)

\* the actors a StopSignal can be addressed to
Actor(kind, n) == <<kind, n>>

\* run: Ctrl-C is received and serv.do_send(StopSignal)
CtrlC ==
    /\ Actor("server", 0) \notin stop_signals
    /\ stop_signals' = stop_signals \cup {Actor("server", 0)}
    /\ UNCHANGED <<default_game_opts, users, queue, rooms, server, RoomVars, session, now,
                   SessionIO, CodecIO, LevIO>>

\* Handler<StopSignal> for GameServer: ctx.stop(); GameServer::stopped then
\* sends StopSignal to the address of every room
GameServerStop ==
    /\ server = "running"
    /\ Actor("server", 0) \in stop_signals
    /\ server' = "stopped"
    /\ stop_signals' = stop_signals \cup { Actor("room", r) : r \in 1..Len(rooms) }
    /\ mailbox' = IF rooms # <<>> THEN Append(mailbox, StopSignal) ELSE mailbox
    /\ UNCHANGED <<default_game_opts, users, queue, rooms, session, sessions, state, game,
                   room, timers, now, sent, handled, frames, ended, SessionIO, CodecIO, LevIO>>

\* Handler<StopSignal> for GameRoom: ctx.stop()
RoomStopSignal ==
    /\ Takes("StopSignal")
    /\ room' = "stopped"
    /\ mailbox' = Tail(mailbox)
    /\ sent' = <<>>
    /\ UNCHANGED <<ServerVars, frames, ended, session, sessions, state, game, timers, now>>

\* the acceptor task of run takes a connection after the server has stopped:
\* handle_connection creates the UserSession, and the Connect request of
\* UserSession::started fails on the closed mailbox, so that the session
\* stays Idle
SessionStartedClosed ==
    /\ server = "stopped"
    /\ \E id \in PlayerIds :
        /\ session[id] = "None"
        /\ \A other \in PlayerIds : other < id => session[other] # "None"
        /\ session' = [session EXCEPT ![id] = "Idle"]
    /\ UNCHANGED <<Fixed, users, queue, rooms, server, RoomVars, now>>

NextStop ==
    \/ NextLeave
    \/ CtrlC
    \/ GameServerStop
    \/ RoomStopSignal
    \/ SessionStartedClosed

SpecStop == Init /\ [][NextStop]_vars

\* ----------------------------------------------- levenshtein_distance alone
\* the chars of the arguments: ASCII letters in both cases, and a letter
\* outside ASCII in both cases
LevWords == UNION { [1..n -> {"a", "A", "b", "u00E9", "u00C9"}] : n \in 0..MaxWordLen }

\* a call of levenshtein_distance(a, b)
LevCall ==
    /\ lev_result = -1
    /\ lev_result' = levenshtein_distance(word1, word2)
    /\ UNCHANGED <<word1, word2, CodecIO, GameIO>>

InitLev ==
    /\ InitGame
    /\ default_game_opts = [number_of_rounds |-> 1, round_duration |-> ROUND_DURATION]
    /\ codec = "ClientMsg"
    /\ InitIdle
    /\ word1 \in LevWords
    /\ word2 \in LevWords

NextLev == LevCall

SpecLev == InitLev /\ [][NextLev]_vars

\* ------------------------------------ the Skribbl engine with its guesses
\* Skribbl::do_guess of a player of the game; the call is kept in `handled`
EngineGuess ==
    /\ state = "InGame"
    /\ room = "running"
    /\ \E id \in DOMAIN game.state.players, guess \in {<<"a">>, game.current_word} :
          /\ handled' = NewMessage(id, guess)
          /\ game' = do_guess(game, id, guess)
    /\ UNCHANGED <<default_game_opts, users, queue, rooms, server, session, sessions, state,
                   mailbox, room, timers, now, sent, frames, ended, SessionIO, stop_signals,
                   CodecIO, LevIO>>

\* the wall clock between two calls
EngineClock ==
    /\ state = "InGame"
    /\ \E d \in TimeStep :
          /\ now + d <= MaxTicks * d
          /\ now' = now + d
    /\ UNCHANGED <<default_game_opts, users, queue, rooms, server, session, sessions, state,
                   game, mailbox, room, timers, sent, handled, frames, ended, SessionIO,
                   stop_signals, CodecIO, LevIO>>

\* Skribbl::next_turn, for the first turns of the first round
EngineTurn ==
    /\ game.state.current_round <= 1
    /\ LET TurnsTaken ==
               IF game.state.current_round = 0 THEN 0
               ELSE Cardinality(DOMAIN game.state.players)
                      - Len(game.state.remaining_players)
       IN  TurnsTaken < MaxGuessTurns
    /\ EngineNextTurn

NextGuess ==
    \/ EngineNew
    \/ EngineTurn
    \/ EngineGuess
    \/ EngineClock

\* (no call of this specification reads the options of the game)
InitGuess ==
    /\ Init
    /\ default_game_opts = [number_of_rounds |-> 1, round_duration |-> ROUND_DURATION]

SpecGuess == InitGuess /\ [][NextGuess]_vars

\* ------------------------------------ frames of a session without a room
\* StreamHandler<WebSocketMessage>::handle, a Text frame while the state is
\* Idle or InQueue: `if let UserState::InGame { room } = &self.state` does
\* not match and the decoded message is dropped
SessionMessageNoRoom ==
    /\ frames < MaxMessages
    /\ frames' = frames + 1
    /\ \E id \in PlayerIds : session[id] \in {"Idle", "InQueue"}
    /\ UNCHANGED <<ServerVars, ended, session, sessions, state, game, mailbox, room, timers,
                   now, sent, handled>>

NextFrames ==
    \/ Next
    \/ SessionMessageNoRoom

SpecFrames == Init /\ [][NextFrames]_vars

\* --------------------------- sessions that close with frames under way
\* the game when a session closes after the frames it forwarded
NextClose ==
    \/ Next
    \/ ServerDisconnect

SpecClose == InitGuess /\ [][NextClose]_vars

\* ------------------------------------- a session that stops while writing
\* UserSession::close has stopped the context; UserSession::stopped:
\* self.sink.take().unwrap().  The futures the context had spawned are dropped
\* with it.
SessionStopped ==
    /\ user = "running"
    /\ IF sink
       THEN /\ user' = "stopped"
            /\ sink' = FALSE
            /\ items' = {}
       ELSE /\ user' = "panicked"
            /\ UNCHANGED <<sink, items>>
    /\ UNCHANGED <<inbox, wire, ServerAndRoom>>

NextSessionStop ==
    \/ NextSession
    \/ SessionStopped

SpecSessionStop == Init /\ [][NextSessionStop]_vars

\* ------------------------------------------------------------- claims
RoundStarts == { i \in 1..Len(sent) : sent[i].msg.kind = "SkribblRoundStart" }

\* C1: a SkribblRoundStart carries Some(word) exactly when its recipient is
\* the drawing_user of the turn it starts, and a handled TurnStart sends one
\* SkribblRoundStart(None, _) to every other client of the room.
C1_WordOnlyToDrawer ==
    /\ \A i \in RoundStarts :
          /\ sent[i].msg.word.some <=> sent[i].to = sent[i].msg.st.drawing_user
          /\ sent[i].msg.word.some => sent[i].msg.word.v = game.current_word
    /\ handled.kind = "TurnStart" /\ state = "InGame" /\ room = "running" =>
          \A id \in sessions \ {game.state.drawing_user} :
              \E i \in RoundStarts : sent[i].to = id /\ ~sent[i].msg.word.some

C1_Witness ==
    /\ handled.kind = "TurnStart"
    /\ Cardinality(sessions) >= 2
    /\ \E i \in RoundStarts : sent[i].msg.word.some /\ sent[i].to = game.state.drawing_user
    /\ \E i \in RoundStarts : ~sent[i].msg.word.some

\* the room handles a NewMessage of a player who can guess, at this distance
\* from the current word
GuessAt(distance) ==
    /\ RoomNewMessage
    /\ state = "InGame"
    /\ Head(mailbox).id \in DOMAIN game.state.players
    /\ can_guess(game, Head(mailbox).id)
    /\ levenshtein_distance(Head(mailbox).body, game.current_word) = distance

\* C2: a guess at Levenshtein distance 1 sends "You're very close!" to its
\* sender and nothing to anyone else, and leaves the game (canvas, scores,
\* has_solved, turn_end_time) as it was.
C2_NearMissPrivate ==
    [][GuessAt(1) =>
        /\ sent' = <<Send(Head(mailbox).id, SystemMsg(<<"You're very close!">>))>>
        /\ game'.state = game.state]_vars

C2_Witness ==
    /\ handled.kind = "NewMessage"
    /\ state = "InGame"
    /\ Cardinality(sessions) >= 2
    /\ game.current_word # <<>>
    /\ sent = <<Send(handled.id, SystemMsg(<<"You're very close!">>))>>

\* seconds until the timer of the current turn ends it
TurnRemaining ==
    IF \E t \in timers.pending : t.handle = game.turn_timer
    THEN (CHOOSE t \in timers.pending : t.handle = game.turn_timer).at - now
    ELSE 0

\* C3: an exact guess with r seconds of the turn remaining adds
\* 50 + 50*r/round_duration to the guesser's score, for the configured
\* round_duration, sets has_solved and sends "<user> guessed it!" to every
\* client of the room.
C3_ExactGuessScore ==
    [][GuessAt(0) =>
        LET id == Head(mailbox).id IN
        /\ game'.state.players[id].score =
              game.state.players[id].score
                + 50 + (50 * TurnRemaining) \div game.game_opts.round_duration
        /\ game'.state.players[id].has_solved
        /\ sent' = broadcast_system_msg(Username(id) \o <<" guessed it!">>)]_vars

HasWhitespace(w) == \E i \in 1..Len(w) : is_whitespace(w[i])

\* C5: after the first TurnStart of a two-player room one client has been
\* sent SkribblRoundStart(Some(word), state) and the other
\* SkribblRoundStart(None, state), where state.word_length is the number of
\* characters of the word and nothing is revealed for a word without
\* whitespace.
C5_TwoPlayerStart ==
    handled.kind = "TurnStart" /\ state = "InGame" /\ Cardinality(sessions) = 2 =>
        /\ \E a, b \in sessions :
              /\ a # b
              /\ \E i \in RoundStarts : sent[i].to = a /\ sent[i].msg.word = Some(game.current_word)
              /\ \E i \in RoundStarts : sent[i].to = b /\ sent[i].msg.word = None
        /\ \A i \in RoundStarts :
              /\ sent[i].msg.st.word_length = Len(game.current_word)
              /\ ~HasWhitespace(game.current_word) => sent[i].msg.st.revealed_characters = {}

\* C6: a correct guess after which every non-drawing player has solved makes
\* has_turn_ended() true and enqueues TurnOver.
C6_AllSolvedEndsTurn ==
    [][GuessAt(0)
        /\ (\A id \in DOMAIN game'.state.players :
                id # game'.state.drawing_user => game'.state.players[id].has_solved)
        => /\ has_turn_ended(game')
           /\ mailbox' = Append(Tail(mailbox), TurnOver)]_vars

\* C7: when the session of the current drawer closes during a game, the room
\* is told: an event (leading to TurnOver, then TurnStart) reaches its mailbox.
C7_DrawerCloseEndsTurn ==
    [][ServerDisconnect
        /\ state = "InGame"
        /\ game.state.drawing_user \in sessions
        /\ session[game.state.drawing_user] # "Stopped"
        /\ session'[game.state.drawing_user] = "Stopped"
        => mailbox' # mailbox]_vars

\* C8: once the room has handled GameEnd it has sent GameOver to every client
\* and is no longer InGame.
C8_GameEndLeavesGame ==
    handled.kind = "GameEnd" /\ room = "running" =>
        /\ state # "InGame"
        /\ \A id \in sessions : \E i \in 1..Len(sent) :
              sent[i].to = id /\ sent[i].msg.kind = "GameOver"

\* C9: a round, the last one included, ends only when every player has drawn:
\* a TurnOver enqueues GameEnd only when remaining_players is empty.
C9_RoundEndsAfterAllDrew ==
    [][RoomTurnOver /\ mailbox' = Append(Tail(mailbox), GameEnd)
        => game.state.remaining_players = <<>>]_vars

\* C10: the session writes the messages the room sent it in the order of the
\* room events that sent them: its i-th write is of the i-th message.
C10_WritesInSendOrder ==
    \A i \in 1..Len(wire) : wire[i].event = i

\* the session has written two of the room's messages
C10_Witness ==
    /\ Len(wire) >= 2
    /\ user = "running"

\* C11: a NewLine of a client that is not drawing_user, handled during a game,
\* changes nothing of the game, sends no NewLine, sends the sender alone "It is
\* not your turn to draw!" and leaves the sender's session and the room's
\* sessions as they were; the canvas grows only by a line of the drawer.
C11_NewLineOutOfTurn ==
    [][/\ (RoomNewLine /\ state = "InGame"
             /\ Head(mailbox).id # game.state.drawing_user)
          => /\ game' = game
             /\ sent' = <<Send(Head(mailbox).id,
                               SystemMsg(<<"It is not your turn to draw!">>))>>
             /\ session' = session
             /\ sessions' = sessions
             /\ room' = room
       /\ (state = "InGame" /\ state' = "InGame"
             /\ Len(game'.state.canvas) > Len(game.state.canvas))
          => /\ RoomNewLine
             /\ Head(mailbox).id = game.state.drawing_user
             /\ game'.state.canvas = Append(game.state.canvas, Head(mailbox).body[1])]_vars

\* the room has answered a NewLine of a player who is not the drawer of the
\* running turn
C11_Witness ==
    /\ handled.kind = "NewLine"
    /\ state = "InGame"
    /\ game.state.drawing_user \in sessions
    /\ handled.id # game.state.drawing_user
    /\ game.state.canvas = <<>>
    /\ sent = <<Send(handled.id, SystemMsg(<<"It is not your turn to draw!">>))>>

\* C12: a ClearCanvas of a client that is not drawing_user, handled during a
\* game, leaves the canvas as it was and sends no ClearCanvas to anyone.
C12_ClearCanvasDrawerOnly ==
    [][RoomClearCanvas /\ state = "InGame"
         /\ game.state.drawing_user \in sessions
         /\ Head(mailbox).id # game.state.drawing_user
       => /\ game'.state.canvas = game.state.canvas
          /\ \A i \in 1..Len(sent') : sent'[i].msg.kind # "ClearCanvas"]_vars

\* C13: revealed_characters never holds more than word_length / 2 entries,
\* after next_turn's whitespace reveal and after reveal_random_char alike.
C13_RevealedAtMostHalf ==
    state = "InGame" =>
        Cardinality(game.state.revealed_characters) <= game.state.word_length \div 2

\* reveal_random_char has revealed as many characters as it may
C13_Witness ==
    /\ state = "InGame"
    /\ game.state.word_length = 6
    /\ Cardinality(game.state.revealed_characters) = 3

\* C14: right after the next_turn of a handled TurnStart no player has
\* has_solved set and the canvas is empty.
C14_TurnStartResets ==
    [][RoomTurnStart /\ room' = "running"
       => /\ \A id \in DOMAIN game'.state.players : ~game'.state.players[id].has_solved
          /\ game'.state.canvas = <<>>]_vars

\* a TurnStart was handled after a turn in which a player had solved
C14_Witness ==
    /\ handled.kind = "TurnStart"
    /\ state = "InGame"
    /\ room = "running"
    /\ game.state.drawing_user \in sessions
    /\ \E id \in DOMAIN game.state.players : game.state.players[id].score >= 75
    /\ \A id \in DOMAIN game.state.players : ~game.state.players[id].has_solved

\* C15: while the room is InGame, drawing_user is a key of players.
C15_DrawerIsPlayer ==
    state = "InGame" => game.state.drawing_user \in DOMAIN game.state.players

\* C16: in every state of a game current_round is at most last_round.
C16_RoundAtMostLast ==
    state = "InGame" => game.state.current_round <= game.state.last_round

\* C17: once the server has handled the Disconnect of a closed session's id,
\* id is in neither users nor queue, and the other ids' entries of both are as
\* they were.
C17_LeaveRemovesId ==
    [][ServerDisconnect =>
        \A id \in PlayerIds :
            session[id] # "Stopped" /\ session'[id] = "Stopped" =>
                /\ id \notin users'
                /\ users' = users \ {id}
                /\ ~Contains(queue', id)
                /\ queue' = SelectSeq(queue, LAMBDA other : other # id)]_vars

\* every outcome of sending n players, one after the other, to a room whose
\* population is least at that moment, the population then growing by one
RECURSIVE LeastFirst(_, _)
LeastFirst(rms, n) ==
    IF n = 0 THEN {rms}
    ELSE UNION { LeastFirst([rms EXCEPT ![r] = @ + 1], n - 1) :
                 r \in { r \in 1..Len(rms) : \A o \in 1..Len(rms) : rms[r] <= rms[o] } }

\* C18: a matchmaking tick on a non-empty queue sends the queued players, in
\* queue order, each to a room of least population, adds one to that room's
\* population, and leaves the queue empty.
C18_TickDrainsQueue ==
    [][Matchmaking =>
        /\ server' = "running"
        /\ queue' = <<>>
        /\ Len(rooms') >= 1
        /\ rooms' \in LeastFirst(IF Len(rooms') > Len(rooms) THEN Append(rooms, 0) ELSE rooms,
                                 Len(queue))
        /\ Len(rooms') = 1 =>
              mailbox' = mailbox \o [i \in 1..Len(queue) |-> Connect(queue[i])]]_vars

\* C19: a room whose sessions hold fewer than 2 clients is Idle (waiting for
\* players) and sends no SkribblRoundStart, and the Connect of its first
\* client broadcasts "waiting for more users to join the game..".
C19_LoneClientWaits ==
    [][/\ Cardinality(sessions') < 2 =>
             /\ state' = "Idle"
             /\ \A i \in 1..Len(sent') : sent'[i].msg.kind # "SkribblRoundStart"
       /\ RoomConnect /\ sessions = {} =>
             /\ sessions' = {Head(mailbox).id}
             /\ \E i \in 1..Len(sent') :
                   sent'[i] = Send(Head(mailbox).id,
                                   SystemMsg(<<"waiting for more users to join the game..">>))
             /\ mailbox' = Tail(mailbox)]_vars

\* the room has handled the Connect of its first client
C19_Witness ==
    /\ handled.kind = "Connect"
    /\ sessions = {handled.id}
    /\ state = "Idle"
    /\ \E i \in 1..Len(sent) :
          sent[i] = Send(handled.id, SystemMsg(<<"waiting for more users to join the game..">>))

\* C20: when the turn of a 6-character word without whitespace is over with no
\* time remaining, two of its characters have been revealed (one from half of
\* the time on, a second from a quarter on) and never a third.
C20_HintsRevealed ==
    [][RoomTurnOver
         /\ Len(game.current_word) = 6
         /\ ~HasWhitespace(game.current_word)
         /\ remaining_round_time(game.state) = 0
       => Cardinality(game.state.revealed_characters) = 2]_vars

C22_FrameStreaming ==
    [][Decode /\ encoded # <<>> =>
        LET IsProperPrefix(p, f) == Len(p) < Len(f) /\ SubSeq(f, 1, Len(p)) = p
            out == rx'[Len(rx')].out
            first == serialize(codec, encoded[1])
        IN  /\ IsProperPrefix(buf, first) => out.kind = "none"
            /\ ~IsProperPrefix(buf, first) =>
                  /\ out = [kind |-> "msg", v |-> encoded[1]]
                  /\ buf' = Drop(buf, Len(first))]_vars

\* two frames were in the buffer and the decoder was called twice
C22_Witness ==
    /\ Len(encoded) = 2
    /\ pipe = <<>>
    /\ Len(rx) = 2
    /\ rx[1].given = buf /\ rx[2].given = buf
    /\ rx[1].out = [kind |-> "msg", v |-> encoded[1]]
    /\ rx[2].out = [kind |-> "msg", v |-> encoded[1]]
    /\ encoded[2] # encoded[1]

\* C23: when the server handles StopSignal a stop signal is sent to every room
\* and to every connected session, a room that handles the signal stops, and
\* once the server has stopped no client connection is accepted.
C23_ShutdownStopsAll ==
    [][/\ GameServerStop =>
             /\ \A r \in 1..Len(rooms) : Actor("room", r) \in stop_signals'
             /\ \A id \in PlayerIds :
                   session[id] \in {"InQueue", "InGame", "Elsewhere"}
                       => Actor("session", id) \in stop_signals'
       /\ RoomStopSignal => room' = "stopped"
       /\ server = "stopped" =>
             \A id \in PlayerIds : session[id] = "None" => session'[id] = "None"]_vars

\* the server and its room have stopped while a session is in the game
C23_Witness ==
    /\ server = "stopped"
    /\ room = "stopped"
    /\ Actor("room", 1) \in stop_signals
    /\ \E id \in PlayerIds : session[id] = "InGame" /\ Actor("session", id) \notin stop_signals

\* the lower-case letter of a letter
ToLower(ch) ==
    CASE ch = "A" -> "a" [] ch = "B" -> "b" [] ch = "u00C9" -> "u00E9" [] OTHER -> ch

SameLetter(c1, c2) == ToLower(c1) = ToLower(c2)

\* the edit distance of two strings whose letters are compared without case:
\* the least number of insertions, deletions and substitutions
RECURSIVE EditDistance(_, _)
EditDistance(s, t) ==
    IF s = <<>> THEN Len(t)
    ELSE IF t = <<>> THEN Len(s)
    ELSE IF SameLetter(Head(s), Head(t)) THEN EditDistance(Tail(s), Tail(t))
    ELSE 1 + Min2(Min2(EditDistance(Tail(s), t), EditDistance(s, Tail(t))),
                  EditDistance(Tail(s), Tail(t)))

\* C24: levenshtein_distance(a, b) is the edit distance of a and b compared
\* without case; it is symmetric, and 0 for strings that differ only in the
\* case of their letters.
C24_LevenshteinStandard ==
    lev_result # -1 =>
        /\ lev_result = EditDistance(word1, word2)
        /\ lev_result = levenshtein_distance(word2, word1)
        /\ (Len(word1) = Len(word2)
              /\ \A i \in 1..Len(word1) : SameLetter(word1[i], word2[i])) => lev_result = 0

\* the function returned 0 for two different strings of three letters
C24_Witness ==
    /\ lev_result = 0
    /\ word1 # word2
    /\ Len(word1) = 3

\* C25: an exact guess made after another player has solved in the same turn
\* takes half of the remaining round time off turn_end_time, which stays at or
\* after the current time; a guess that is not exact leaves turn_end_time as
\* it was.
C25_SecondSolverHalvesTime ==
    [][LET ExactGuess ==
               /\ EngineGuess
               /\ can_guess(game, handled'.id)
               /\ levenshtein_distance(handled'.body, game.current_word) = 0
       IN
       /\ (ExactGuess /\ \E p \in DOMAIN game.state.players \ {handled'.id} :
                            game.state.players[p].has_solved)
          => /\ game'.state.turn_end_time =
                   game.state.turn_end_time - remaining_round_time(game.state) \div 2
             /\ game.state.turn_end_time >= now => game'.state.turn_end_time >= now
       /\ (EngineGuess /\ ~ExactGuess)
          => game'.state.turn_end_time = game.state.turn_end_time]_vars

\* two players other than the drawer have solved in a turn with time left
C25_Witness ==
    /\ state = "InGame"
    /\ handled.kind = "NewMessage"
    /\ game.state.drawing_user \in DOMAIN game.state.players
    /\ remaining_round_time(game.state) > 0
    /\ Cardinality({ p \in DOMAIN game.state.players :
                       p # game.state.drawing_user /\ game.state.players[p].has_solved }) >= 2

\* C30: do_guess(id, text) of the drawing_user or of a player who has solved
\* returns None and leaves every score, has_solved and turn_end_time as they
\* were; a call that raises a score is of a player who is not the drawer and
\* had not solved in this turn.
C30_NoSecondAward ==
    [][EngineGuess =>
        LET id == handled'.id IN
        /\ (id = game.state.drawing_user \/ game.state.players[id].has_solved)
              => /\ do_guess_result(game, id, handled'.body) = None
                 /\ game'.state.players = game.state.players
                 /\ game'.state.turn_end_time = game.state.turn_end_time
        /\ (\E p \in DOMAIN game.state.players :
                game'.state.players[p].score # game.state.players[p].score)
              => /\ id # game.state.drawing_user
                 /\ ~game.state.players[id].has_solved
                 /\ \A p \in DOMAIN game.state.players \ {id} :
                       game'.state.players[p] = game.state.players[p]]_vars

\* the drawer has guessed the word of the turn and has not solved
C30_Witness ==
    /\ state = "InGame"
    /\ handled.kind = "NewMessage"
    /\ handled.id = game.state.drawing_user
    /\ game.current_word # <<>>
    /\ handled.body = game.current_word
    /\ ~game.state.players[handled.id].has_solved
    /\ game.state.players[handled.id].score = 0

\* C26: when the room handles TurnOver the drawer's score grows by a flat 50
\* and by the bonus a solver gets for the time remaining at that moment, and
\* no other player's score changes.
C26_DrawerAwardedAtTurnOver ==
    [][RoomTurnOver /\ game.state.drawing_user \in DOMAIN game.state.players =>
        LET drawer == game.state.drawing_user IN
        /\ game'.state.players[drawer].score =
              game.state.players[drawer].score + 50
                + calculate_score_increase(remaining_round_time(game.state))
        /\ \A p \in DOMAIN game.state.players \ {drawer} :
              game'.state.players[p].score = game.state.players[p].score]_vars

\* the room has handled the TurnOver of a turn that had a drawer
C26_Witness ==
    /\ handled.kind = "TurnOver"
    /\ state = "InGame"
    /\ game.state.drawing_user \in DOMAIN game.state.players
    /\ game.state.players[game.state.drawing_user].score = 0
    /\ \E i \in 1..Len(sent) : sent[i].msg.kind = "SkribblRoundEnd"

\* the timer the running turn was armed with
TurnTimer == { t \in timers.pending : t.handle = game.turn_timer }

\* C27: next_turn sets turn_end_time to the start of the turn plus the
\* configured round_duration, which is the deadline of the timer TurnStart
\* arms; when that timer fires remaining_round_time() is 0 and
\* has_round_ended() is true.
C27_DeadlineIsTurnEnd ==
    [][/\ RoomTurnStart /\ room' = "running" =>
             /\ game'.state.turn_end_time = now + game.game_opts.round_duration
             /\ \A t \in timers'.pending \ timers.pending :
                   t.at = game'.state.turn_end_time
       /\ TimerFires /\ TurnTimer # {} /\ timers'.pending = timers.pending \ TurnTimer =>
             /\ remaining_round_time(game.state) = 0
             /\ has_round_ended(game)]_vars

\* the timer of a turn has fired at its deadline with a round_duration other
\* than ROUND_DURATION
C27_Witness ==
    /\ state = "InGame"
    /\ game.game_opts.round_duration # ROUND_DURATION
    /\ game.state.drawing_user \in sessions
    /\ now = game.game_opts.round_duration
    /\ TurnTimer = {}
    /\ mailbox = <<TurnOver>>
    /\ remaining_round_time(game.state) > 0

\* C28: a room never has more than one pending turn timer: TurnStart arms its
\* timer when no earlier one is pending, no timer is pending once TurnOver is
\* handled, and the timer that fires is the one of the running turn.
C28_OneTurnTimer ==
    [][/\ Cardinality(timers'.pending) <= 1
       /\ RoomTurnStart => timers.pending = {}
       /\ RoomTurnOver => timers'.pending = {}
       /\ TimerFires => timers.pending \ timers'.pending \subseteq TurnTimer]_vars

\* two turn timers are pending in a game whose turn has a drawer
C28_Witness ==
    /\ state = "InGame"
    /\ room = "running"
    /\ game.state.drawing_user \in sessions
    /\ Cardinality(timers.pending) = 2

\* C29: GameEnd is enqueued only by a TurnOver at which the round has ended
\* and current_round = number_of_rounds, and a game of N rounds does enqueue
\* it: the game is never past round N without a GameEnd enqueued (during a game
\* current_round only grows and GameEnd needs current_round = N, so that past
\* round N no timer that fires can bring it about any more).
C29_GameEnds ==
    [][/\ (/\ mailbox' # mailbox
           /\ Len(mailbox') >= Len(mailbox)
           /\ mailbox' # <<>>
           /\ mailbox'[Len(mailbox')] = GameEnd)
          => /\ RoomTurnOver
             /\ has_round_ended(game)
             /\ game.state.current_round = game.game_opts.number_of_rounds
       /\ (/\ state' = "InGame"
           /\ \A i \in 1..Len(mailbox') : mailbox'[i].kind # "GameStart"
           /\ game'.state.current_round > game'.game_opts.number_of_rounds)
          => ended']_vars

\* a TurnOver of the last round has enqueued GameEnd
C29_Witness ==
    /\ state = "InGame"
    /\ handled.kind = "TurnOver"
    /\ ended
    /\ mailbox # <<>>
    /\ mailbox[Len(mailbox)] = GameEnd
    /\ game.state.current_round = game.game_opts.number_of_rounds

\* C31: during a game the text of a NewMessage that is neither an exact guess
\* nor a near-miss (its distance from the current word is above 1) is sent
\* only to players who cannot guess, whoever sent it.
C31_FarMissOnlyToNonGuessers ==
    [][/\ RoomNewMessage
       /\ state = "InGame"
       /\ game.state.drawing_user # 0
       /\ room' = "running"
       /\ levenshtein_distance(Head(mailbox).body, game.current_word) > 1
       => \A i \in 1..Len(sent') :
              sent'[i].msg.kind = "UserMsg" => ~can_guess(game, sent'[i].to)]_vars

\* the text of a player who can guess, far from the word, has been sent to a
\* player who can guess
C31_Witness ==
    /\ handled.kind = "NewMessage"
    /\ state = "InGame"
    /\ room = "running"
    /\ game.current_word # <<>>
    /\ levenshtein_distance(handled.body, game.current_word) > 1
    /\ can_guess(game, handled.id)
    /\ \E i \in 1..Len(sent) :
          /\ sent[i].msg = UserMsg(handled.id, handled.body)
          /\ can_guess(game, sent[i].to)

\* C32: the Connect of a client the room handles during a game adds the
\* client to players with score 0 and once to remaining_players (a second
\* add_player of the id changes nothing) and sends the joiner, and nobody
\* else, the snapshot of the game; the joiner then draws in the current round:
\* while it waits in remaining_players the game is not ended.
C32_LateJoin ==
    [][/\ (RoomConnect /\ state = "InGame" /\ Head(mailbox).id \notin DOMAIN game.state.players)
          => LET id == Head(mailbox).id IN
             /\ DOMAIN game'.state.players = DOMAIN game.state.players \cup {id}
             /\ game'.state.players[id] = [score |-> 0, has_solved |-> FALSE]
             /\ \A p \in DOMAIN game.state.players :
                   game'.state.players[p] = game.state.players[p]
             /\ game'.state.remaining_players = Append(game.state.remaining_players, id)
             /\ add_player(game', id) = game'
             /\ \E i \in 1..Len(sent') :
                   /\ sent'[i] = Send(id, JoinRoom(game'.state))
                   /\ \A j \in 1..Len(sent') : sent'[j].msg.kind = "JoinRoom" => j = i
       /\ (/\ RoomTurnOver
           /\ handled.kind = "Connect"
           /\ Contains(game.state.remaining_players, handled.id))
          => mailbox'[Len(mailbox')] = TurnStart]_vars

\* the last event the room handled is the Connect of a third client during a
\* game, and the client waits for its turn
C32_Witness ==
    /\ state = "InGame"
    /\ handled.kind = "Connect"
    /\ game.state.drawing_user # 0
    /\ Cardinality(DOMAIN game.state.players) = 3
    /\ Contains(game.state.remaining_players, handled.id)
    /\ \E i \in 1..Len(sent) : sent[i] = Send(handled.id, JoinRoom(game.state))

\* C33: every message a session decodes from its connection is forwarded to
\* the room once, after the messages forwarded before it and tagged with the
\* id of a session, also when it arrives before the session has been told
\* which room it joined.
C33_FramesForwarded ==
    [][frames' = frames + 1 =>
        /\ Len(mailbox') = Len(mailbox) + 1
        /\ SubSeq(mailbox', 1, Len(mailbox)) = mailbox
        /\ mailbox'[Len(mailbox')].kind \in {"NewMessage", "NewLine", "ClearCanvas"}
        /\ session[mailbox'[Len(mailbox')].id] # "None"]_vars

\* a session in the queue has decoded a frame, and the room has received
\* nothing
C33_Witness ==
    /\ frames = 1
    /\ \E id \in PlayerIds : session[id] = "InQueue"
    /\ sessions = {}
    /\ mailbox = <<>>
    /\ handled = NoEvent

C35_GameStartsOnce ==
    [][/\ RoomGameStart => state = "Idle" /\ game = NoGame
       /\ RoomTurnStart => handled.kind # "TurnStart"]_vars

\* three clients are in a room that has started its game, and another
\* GameStart is the next event of its mailbox
C35_Witness ==
    /\ Cardinality(sessions) = 3
    /\ state = "InGame"
    /\ handled.kind = "GameStart"
    /\ mailbox # <<>>
    /\ Head(mailbox) = GameStart

\* C36: every id of the matchmaking queue is a key of the users map, also
\* when Disconnect(id) is handled after FindRoom(id) and before the next
\* matchmaking tick.
C36_QueuedAreUsers ==
    \A i \in 1..Len(queue) : queue[i] \in users

\* the server has handled the Disconnect of a queued session and the id is
\* still queued
C36_Witness ==
    /\ server = "running"
    /\ \E i \in 1..Len(queue) :
          /\ session[queue[i]] = "Stopped"
          /\ queue[i] \notin users

\* C37: whenever the future of the outbound-message handler or the stop hook
\* takes the sink, the sink is present, also when the message or the stop
\* comes while an earlier write of the session is in flight.
C37_SinkPresentWhenTaken ==
    [][(FutureTakesSink \/ SessionStopped) => sink]_vars

\* the session panicked while the sink was with a write in flight
C37_Witness ==
    /\ user = "panicked"
    /\ ~sink
    /\ \E it \in items : it.stage = "sending"

\* C38: a NewMessage the room handles right after GameStart (before the first
\* TurnStart) or right after a TurnOver (before the TurnStart that follows it)
\* changes no player's score or has_solved, whatever its text.
C38_NoScoreBetweenTurns ==
    [][/\ RoomNewMessage
       /\ state = "InGame"
       /\ handled.kind \in {"GameStart", "TurnOver"}
       => game'.state.players = game.state.players]_vars

\* a player has solved and scored in a game that has started no turn
C38_Witness ==
    /\ state = "InGame"
    /\ handled.kind = "NewMessage"
    /\ game.state.current_round = 0
    /\ game.state.drawing_user = 0
    /\ handled.id \in DOMAIN game.state.players
    /\ game.state.players[handled.id].has_solved
    /\ game.state.players[handled.id].score = 50

\* C39: after every event a room handles, if the room is InGame the ids of
\* the players of its Skribbl state are the ids of its sessions map; and every
\* NewMessage an InGame room handles comes from an id that is a key of players.
C39_PlayersAreSessions ==
    [][/\ state' = "InGame" => DOMAIN game'.state.players = sessions'
       /\ RoomNewMessage /\ state = "InGame"
            => Head(mailbox).id \in DOMAIN game.state.players]_vars

\* a user has joined a room in the middle of a turn and is a player of its game
C39_Witness ==
    /\ state = "InGame"
    /\ handled.kind = "Connect"
    /\ game.state.drawing_user # 0
    /\ Cardinality(sessions) = MaxPlayers
    /\ handled.id \in DOMAIN game.state.players
    /\ handled.id # game.state.drawing_user

\* C40: in every InGame state after the first next_turn (a drawer is set),
\* remaining_players holds no id twice, every id in it is a key of players,
\* and the current drawing_user is not in it.
C40_RemainingPlayersSound ==
    state = "InGame" /\ game.state.drawing_user # 0
        => LET remaining == game.state.remaining_players
           IN  /\ \A i, j \in 1..Len(remaining) : remaining[i] = remaining[j] => i = j
               /\ \A i \in 1..Len(remaining) : remaining[i] \in DOMAIN game.state.players
               /\ \A i \in 1..Len(remaining) : remaining[i] # game.state.drawing_user

\* a user joined in the middle of a turn and waits to draw behind an earlier player
C40_Witness ==
    /\ state = "InGame"
    /\ handled.kind = "Connect"
    /\ game.state.drawing_user # 0
    /\ Len(game.state.remaining_players) = 2
    /\ game.state.remaining_players[2] = handled.id

====
